---- MODULE Spec2Model ----
(***************************************************************************)
(* A model of src/main.py (MimirApp): the language-model handle and its    *)
(* loaders, the generation worker, the conversation history, the settings  *)
(* save, the speech-capture handlers and the Tk event queue.               *)
(*                                                                         *)
(* Threads of the program:                                                 *)
(*   - the Tk main thread: send_text, save_settings, new chat, and the     *)
(*     tasks posted with root.after;                                       *)
(*   - the startup preload thread (init_llm), when keep_model_loaded;      *)
(*   - one generation worker per accepted submit (_generate_and_update);   *)
(*   - the keyboard hook thread: start/stop_speech_recording;              *)
(*   - the audio callback; one transcription worker per release.           *)
(* A step of the model is one access to shared state (self.llm, the        *)
(* history list, config.json, the Tk queue) with the local computation     *)
(* around it.                                                              *)
(***************************************************************************)
EXTENDS Integers, Sequences, FiniteSets, TLC

\* ------------------------------------------------------------------ bounds
MaxSubmits == 4          \* accepted submits per sequential run
MaxConcSubmits == 2      \* accepted submits per concurrent run
MaxHistoryLength == 2    \* conversation_history_length is drawn from 0..MaxHistoryLength
MaxSaves == 1            \* save_settings calls per run
MaxQueue == 3            \* pending root.after tasks
MaxPresses == 2          \* key-down events of the speech hotkey per run
MaxFrames == 1           \* audio buffers per recording
MaxEmptySubmits == 1     \* empty or blank submits per run
MaxChatSubmits == 2      \* accepted submits per run of the window
MaxTimers == 1           \* pending delayed clears when "new chat" is pressed

\* The except branch of the trim keeps the last 10 exchanges.
DefaultHistoryLength == 10

Workers == {"w1", "w2"}
Preload == "preload"
Loaders == Workers \cup {Preload}

Texts == {"hi", "bye"}
Reply == "hello"
Transcribers == {"t1", "t2"}

\* ------------------------------------------------------------ the variables
VARIABLES
    config,                \* the document in config.json: key -> value
    file_state,            \* "ok", or "truncated" while save_settings has it open for writing
    save_pc,               \* where the main thread is inside save_settings
    pending_doc,           \* the document save_settings is writing
    saves,                 \* completed saves
    llm,                   \* self.llm
    constructions,         \* calls of Llama(...) so far
    conversation_history,  \* self.conversation_history
    all_turns,             \* every turn ever appended, in append order
    thr,                   \* per loader thread: position and locals
    submits,               \* accepted submits so far
    uiQueue,               \* tasks posted with root.after(0, ...), FIFO
    output_text,           \* the output view
    status_label,          \* the status labels
    text_entry,            \* the input view: the pieces of text inserted into it
    timers,                \* pending root.after(ms, self.clear_status) calls
    key_down,              \* the speech hotkey is held
    presses,               \* key-down events delivered so far (auto-repeat included)
    releases,              \* key-up events delivered so far
    is_recording,          \* self.is_recording
    recording_data,        \* self.recording_data: each frame tagged with its session
    recording_stream,      \* self.recording_stream: "None", "created" or "started"
    sessions,              \* recordings started so far
    streams_opened,        \* sd.InputStream objects constructed so far
    hook_pc,               \* where the keyboard hook thread is: "idle" or "opening"
    whisper_model,         \* self.whisper_model: "None" or the model size
    whisper_loads,         \* calls of WhisperModel(...) so far
    temp_files,            \* the temporary .wav files that exist
    temp_created,          \* temporary files created so far
    tr,                    \* per transcription thread: position and locals
    blank_clicks,          \* times the send handler has run on an empty or blank input
    window,                \* the root window: "shown", "hidden" or "destroyed"
    widget_threads         \* the threads that have called into the window or a widget

gen_vars == <<config, file_state, save_pc, pending_doc, saves, llm, constructions,
              conversation_history, all_turns, thr, submits, uiQueue, output_text,
              status_label>>

\* What the capture handlers and the transcription threads own.
rec_vars == <<key_down, presses, releases, is_recording, recording_data,
              recording_stream, sessions, streams_opened, hook_pc>>
trans_vars == <<whisper_loads, temp_files, temp_created, tr>>
cap_vars == <<rec_vars, trans_vars, whisper_model>>
entry_vars == <<text_entry, timers>>

\* What the generation side owns.
llm_vars == <<llm, constructions, conversation_history, all_turns, thr, submits>>

\* The window, and who touched it.
shell_vars == <<blank_clicks, window, widget_threads>>

vars == <<gen_vars, cap_vars, entry_vars, shell_vars>>

\* ------------------------------------------------------------ config.json
K_KEEP == "keep_model_loaded"
K_PATH == "llm_gguf_path"
K_HIST == "conversation_history_length"
K_SYS  == "llm_system_prompt"
K_RATE == "speech_sample_rate"
K_SIZE == "whisper_model_size"
K_TEMP == "llm_temperature"

FullDoc(keep, path, hist) ==
    (K_KEEP :> keep) @@ (K_PATH :> path) @@ (K_HIST :> hist) @@ (K_SYS :> "sys")
    @@ (K_RATE :> 16000) @@ (K_SIZE :> "base")
    @@ (K_TEMP :> [whole |-> 0, tenths |-> 7])

Without(doc, key) == [k \in (DOMAIN doc) \ {key} |-> doc[k]]

\* The documents the program may find on disk at startup: complete ones, and
\* ones that lack a key.
InitDocs ==
    LET full == {FullDoc(keep, "old.gguf", hist) :
                    keep \in BOOLEAN, hist \in 0..MaxHistoryLength}
    IN  full
        \cup {Without(FullDoc(TRUE, "old.gguf", MaxHistoryLength), K_HIST)}
        \cup {Without(FullDoc(FALSE, "old.gguf", MaxHistoryLength), K_KEEP)}

\* get_config_value(key): the value, or an exception (file being rewritten:
\* ValueError; key absent: KeyError).
get_config_value(key) ==
    IF file_state = "ok" /\ key \in DOMAIN config
    THEN [ok |-> TRUE, val |-> config[key]]
    ELSE [ok |-> FALSE, val |-> FALSE]

\* ------------------------------------------------------------ handles
NoHandle == [id |-> 0, path |-> ""]

\* ------------------------------------------------------------ prompts
IM_START == "<|im_start|>"
IM_END == "<|im_end|>"
NL == "\n"

Segment(role, text) == <<IM_START, role, NL, text, IM_END, NL>>

RECURSIVE create_history_prompt(_)
create_history_prompt(history) ==
    IF history = <<>> THEN <<>>
    ELSE Segment("user", Head(history)[1])
         \o Segment("assistant", Head(history)[2])
         \o create_history_prompt(Tail(history))

\* A variant that closes the trailing assistant segment.
full_prompt_closed(system_prompt, history, prompt) ==
    Segment("system", system_prompt)
    \o create_history_prompt(history)
    \o Segment("user", prompt)
    \o Segment("assistant", "")

full_prompt_of(system_prompt, history, prompt) ==
    Segment("system", system_prompt)
    \o create_history_prompt(history)
    \o Segment("user", prompt)
    \o <<IM_START, "assistant", NL>>

\* lst[-m:] of Python for m >= 0: the whole list when m = 0.
SliceLast(lst, m) ==
    IF m = 0 \/ m >= Len(lst) THEN lst
    ELSE SubSeq(lst, Len(lst) - m + 1, Len(lst))

\* ------------------------------------------------------------ text
\* The texts of the model, spelled out: a text is handled as the sequence of
\* its characters wherever the program looks inside it.
TextValues == {"", " ", "hi", " hi", "bye", "sys", " sys", "sys\n"}

Chars(s) ==
    CASE s = "" -> <<>>
      [] s = " " -> <<" ">>
      [] s = "hi" -> <<"h", "i">>
      [] s = " hi" -> <<" ", "h", "i">>
      [] s = "bye" -> <<"b", "y", "e">>
      [] s = "sys" -> <<"s", "y", "s">>
      [] s = " sys" -> <<" ", "s", "y", "s">>
      [] s = "sys\n" -> <<"s", "y", "s", "\n">>

Str(cs) == CHOOSE s \in TextValues : Chars(s) = cs

IsSpace(c) == c \in {" ", "\n", "\t"}

RECURSIVE lstrip(_)
lstrip(cs) == IF cs # <<>> /\ IsSpace(Head(cs)) THEN lstrip(Tail(cs)) ELSE cs

RECURSIVE rstrip(_)
rstrip(cs) ==
    IF cs # <<>> /\ IsSpace(cs[Len(cs)]) THEN rstrip(SubSeq(cs, 1, Len(cs) - 1))
    ELSE cs

\* widget.get("1.0", tk.END).strip(): the content of a Text widget is read
\* with the newline Tk appends, and stripped.
get_stripped(content) == Str(rstrip(lstrip(Append(Chars(content), "\n"))))

\* ------------------------------------------------------------ tasks
StatusTask(msg) == [kind |-> "status", text |-> msg, req |-> ""]
UpdateTask(w, text) == [kind |-> "update", text |-> text, req |-> w]
ErrorBoxTask == [kind |-> "errorbox", text |-> "LLM Load Error", req |-> ""]
ShowFocusTask == [kind |-> "show_focus", text |-> "", req |-> ""]
TranscriptionTask(text) == [kind |-> "transcription", text |-> text, req |-> ""]
\* The empty status posted by a clear_status that root.after(ms, ...) delayed.
ExpiryTask == [kind |-> "status", text |-> "", req |-> "timer"]

Post(q, task) == Append(q, task)

\* ------------------------------------------------------------ threads
IdleThread ==
    [pc |-> "idle", prompt |-> "", keep_loaded |-> FALSE, params |-> "",
     full_prompt |-> <<>>, handle |-> NoHandle,
     result |-> "", failed |-> FALSE, trimmed |-> <<>>,
     posts |-> 0, start_epoch |-> 0, history_at_start |-> <<>>]

Free(w) == thr[w].pc \in {"idle", "done", "crashed"}

\* session_frames: the frames the recording held when the release started
\* the thread.
IdleTranscriber ==
    [pc |-> "idle", audio |-> <<>>, file |-> 0, session_frames |-> <<>>]

FreeTranscriber(t) == tr[t].pc \in {"idle", "done"}


FreeWorker == IF Free("w1") THEN "w1" ELSE "w2"

SetThr(t, rec) == thr' = [thr EXCEPT ![t] = rec]

MainThreadIdle == save_pc = "idle"

\* ------------------------------------------------------------ Init
\* __init__: no handle, empty history; the preload thread is started when
\* keep_model_loaded reads true.
InitWith(docs) ==
    /\ config \in docs
    /\ file_state = "ok"
    /\ save_pc = "idle"
    /\ pending_doc = config
    /\ saves = 0
    /\ llm = NoHandle
    /\ constructions = 0
    /\ conversation_history = <<>>
    /\ all_turns = <<>>
    /\ thr = [t \in Loaders |->
                IF t = Preload /\ K_KEEP \in DOMAIN config /\ config[K_KEEP]
                THEN [IdleThread EXCEPT !.pc = "init_llm"]
                ELSE IdleThread]
    /\ submits = 0
    /\ uiQueue = <<>>
    /\ output_text = ""
    /\ status_label = ""
    /\ text_entry = <<>>
    /\ timers = 0
    /\ key_down = FALSE
    /\ presses = 0
    /\ releases = 0
    /\ is_recording = FALSE
    /\ recording_data = <<>>
    /\ recording_stream = "None"
    /\ sessions = 0
    /\ streams_opened = 0
    /\ hook_pc = "idle"
    /\ whisper_model = "None"
    /\ whisper_loads = 0
    /\ temp_files = {}
    /\ temp_created = 0
    /\ tr = [t \in Transcribers |-> IdleTranscriber]
    /\ blank_clicks = 0
    /\ window = "shown"
    /\ widget_threads = {"main"}

Init == InitWith(InitDocs)

\* ------------------------------------------------------------ send_text
\* A variant without the test of line 283.
send_text_accepts_blank(entry) ==
    /\ MainThreadIdle
    /\ blank_clicks' = blank_clicks + (IF get_stripped(entry) = "" THEN 1 ELSE 0)
    /\ blank_clicks' <= MaxEmptySubmits
    /\ widget_threads' = widget_threads \cup {"main"}
    /\ LET text == get_stripped(entry)
           r == get_config_value(K_KEEP)
           w == FreeWorker
       IN  /\ submits < MaxSubmits
           /\ \E v \in Workers : Free(v)
           /\ Len(uiQueue) < MaxQueue
           /\ submits' = submits + 1
           /\ output_text' = ""
           /\ text_entry' = <<>>
           /\ IF r.ok
              THEN /\ uiQueue' = Post(uiQueue, StatusTask(
                                    IF llm = NoHandle /\ ~r.val
                                    THEN "Loading model and generating..."
                                    ELSE "Generating..."))
                   /\ SetThr(w, [IdleThread EXCEPT
                                    !.pc = "start", !.prompt = text,
                                    !.start_epoch = saves,
                                    !.history_at_start = conversation_history])
              ELSE UNCHANGED <<uiQueue, thr>>
    /\ UNCHANGED <<config, file_state, save_pc, pending_doc, saves, llm,
                   constructions, conversation_history, all_turns, status_label>>
    /\ UNCHANGED <<timers, cap_vars, window>>

\* send_text, lines 279-305, on the main thread; entry is what the input view
\* holds. An empty or blank input returns at line 284. Otherwise the output
\* view is cleared, the input deleted, the status set and a worker thread
\* started; when keep_model_loaded cannot be read the handler raises after
\* clearing the views and starts no worker.
send_text(entry) ==
    /\ MainThreadIdle
    /\ blank_clicks' = blank_clicks + (IF get_stripped(entry) = "" THEN 1 ELSE 0)
    /\ blank_clicks' <= MaxEmptySubmits
    /\ widget_threads' = widget_threads \cup {"main"}
    /\ LET text == get_stripped(entry)
           r == get_config_value(K_KEEP)
           w == FreeWorker
       IN  IF text = ""
           THEN UNCHANGED <<submits, output_text, uiQueue, thr, text_entry>>
           ELSE /\ submits < MaxSubmits
                /\ \E v \in Workers : Free(v)
                /\ Len(uiQueue) < MaxQueue
                /\ submits' = submits + 1
                /\ output_text' = ""
                /\ text_entry' = <<>>
                /\ IF r.ok
                   THEN /\ uiQueue' = Post(uiQueue, StatusTask(
                                         IF llm = NoHandle /\ ~r.val
                                         THEN "Loading model and generating..."
                                         ELSE "Generating..."))
                        /\ SetThr(w, [IdleThread EXCEPT
                                         !.pc = "start", !.prompt = text,
                                         !.start_epoch = saves,
                                         !.history_at_start = conversation_history])
                   ELSE UNCHANGED <<uiQueue, thr>>
    /\ UNCHANGED <<config, file_state, save_pc, pending_doc, saves, llm,
                   constructions, conversation_history, all_turns, status_label>>
    /\ UNCHANGED <<timers, cap_vars, window>>

\* ------------------------------------------------------------ init_llm
AfterInitLlm(t) == IF t = Preload THEN "done" ELSE "check_loaded"

\* Lines 757-762: the parameters are read from config.json; a failed read
\* goes to the except branch: handle reset, error box posted.
init_llm_read(t) ==
    /\ thr[t].pc = "init_llm"
    /\ LET r == get_config_value(K_PATH)
       IN  IF r.ok
           THEN /\ SetThr(t, [thr[t] EXCEPT !.pc = "constructing",
                                            !.params = r.val])
                /\ UNCHANGED <<llm, uiQueue>>
           ELSE /\ Len(uiQueue) < MaxQueue
                /\ llm' = NoHandle
                /\ uiQueue' = Post(uiQueue, ErrorBoxTask)
                /\ SetThr(t, [thr[t] EXCEPT !.pc = AfterInitLlm(t)])
    /\ UNCHANGED <<config, file_state, save_pc, pending_doc, saves, constructions,
                   conversation_history, all_turns, submits, output_text,
                   status_label>>
    /\ UNCHANGED <<cap_vars, entry_vars>>
    /\ UNCHANGED shell_vars

\* Lines 768-781: Llama(...) returns and the handle is stored, or it raises.
init_llm_construct(t) ==
    /\ thr[t].pc = "constructing"
    /\ constructions' = constructions + 1
    /\ \/ /\ llm' = [id |-> constructions + 1, path |-> thr[t].params]
          /\ UNCHANGED uiQueue
       \/ /\ Len(uiQueue) < MaxQueue
          /\ llm' = NoHandle
          /\ uiQueue' = Post(uiQueue, ErrorBoxTask)
    /\ SetThr(t, [thr[t] EXCEPT !.pc = AfterInitLlm(t), !.params = ""])
    /\ UNCHANGED <<config, file_state, save_pc, pending_doc, saves,
                   conversation_history, all_turns, submits, output_text,
                   status_label>>
    /\ UNCHANGED <<cap_vars, entry_vars>>
    /\ UNCHANGED shell_vars

\* ------------------------------------------------------------ _generate_and_update
\* Line 786: keep_model_loaded is read outside any try; a failed read ends the
\* thread with the exception.
gen_read_keep(w) ==
    /\ thr[w].pc = "start"
    /\ LET r == get_config_value(K_KEEP)
       IN  IF r.ok
           THEN SetThr(w, [thr[w] EXCEPT !.pc = "check_llm", !.keep_loaded = r.val])
           ELSE SetThr(w, [IdleThread EXCEPT !.pc = "crashed"])
    /\ UNCHANGED <<config, file_state, save_pc, pending_doc, saves, llm,
                   constructions, conversation_history, all_turns, submits,
                   uiQueue, output_text, status_label>>
    /\ UNCHANGED <<cap_vars, entry_vars>>
    /\ UNCHANGED shell_vars

\* Line 789: load only when the handle is None.
gen_check_llm(w) ==
    /\ thr[w].pc = "check_llm"
    /\ SetThr(w, [thr[w] EXCEPT !.pc = IF llm = NoHandle THEN "init_llm"
                                                         ELSE "check_loaded"])
    /\ UNCHANGED <<config, file_state, save_pc, pending_doc, saves, llm,
                   constructions, conversation_history, all_turns, submits,
                   uiQueue, output_text, status_label>>
    /\ UNCHANGED <<cap_vars, entry_vars>>
    /\ UNCHANGED shell_vars

\* A variant that calls init_llm again when the load left no handle.
gen_check_loaded_retries(w) ==
    /\ thr[w].pc = "check_loaded"
    /\ IF llm = NoHandle
       THEN SetThr(w, [thr[w] EXCEPT !.pc = "init_llm"])
       ELSE SetThr(w, [thr[w] EXCEPT !.pc = "build"])
    /\ UNCHANGED <<config, file_state, save_pc, pending_doc, saves, llm,
                   constructions, conversation_history, all_turns, submits,
                   uiQueue, output_text, status_label>>
    /\ UNCHANGED <<cap_vars, entry_vars>>
    /\ UNCHANGED shell_vars

\* Lines 803-804.
gen_check_loaded(w) ==
    /\ thr[w].pc = "check_loaded"
    /\ IF llm = NoHandle
       THEN SetThr(w, [thr[w] EXCEPT !.pc = "post", !.failed = TRUE,
                                     !.result = "Model failed to load."])
       ELSE SetThr(w, [thr[w] EXCEPT !.pc = "build"])
    /\ UNCHANGED <<config, file_state, save_pc, pending_doc, saves, llm,
                   constructions, conversation_history, all_turns, submits,
                   uiQueue, output_text, status_label>>
    /\ UNCHANGED <<cap_vars, entry_vars>>
    /\ UNCHANGED shell_vars

\* Lines 808-817: the generation parameters are read, the prompt is built from
\* the history and self.llm.create_completion is entered. A failed read, or
\* a handle that is None by now, raises into the except of line 838.
gen_build(w) ==
    /\ thr[w].pc = "build"
    /\ LET r == get_config_value(K_SYS)
       IN  IF r.ok /\ llm # NoHandle
           THEN SetThr(w, [thr[w] EXCEPT
                             !.pc = "inferring",
                             !.full_prompt = full_prompt_of(r.val, conversation_history,
                                                            thr[w].prompt),
                             !.handle = llm])
           ELSE SetThr(w, [thr[w] EXCEPT !.pc = "unload", !.failed = TRUE,
                                         !.result = "Generation error"])
    /\ UNCHANGED <<config, file_state, save_pc, pending_doc, saves, llm,
                   constructions, conversation_history, all_turns, submits,
                   uiQueue, output_text, status_label>>
    /\ UNCHANGED <<cap_vars, entry_vars>>
    /\ UNCHANGED shell_vars

\* A variant that records the turn before the completion is known to succeed.
gen_infer_append_first(w) ==
    /\ thr[w].pc = "inferring"
    /\ conversation_history' = Append(conversation_history, <<thr[w].prompt, Reply>>)
    /\ all_turns' = Append(all_turns, <<thr[w].prompt, Reply>>)
    /\ \/ SetThr(w, [thr[w] EXCEPT !.pc = "trim", !.result = Reply,
                                   !.full_prompt = <<>>, !.handle = NoHandle])
       \/ SetThr(w, [thr[w] EXCEPT !.pc = "unload", !.failed = TRUE,
                                   !.result = "Generation error",
                                   !.full_prompt = <<>>, !.handle = NoHandle])
    /\ UNCHANGED <<config, file_state, save_pc, pending_doc, saves, llm,
                   constructions, submits, uiQueue, output_text, status_label>>
    /\ UNCHANGED <<cap_vars, entry_vars>>
    /\ UNCHANGED shell_vars

\* A variant whose successful completion leaves the history as it was.
gen_infer_forgets_turn(w) ==
    /\ thr[w].pc = "inferring"
    /\ \/ /\ all_turns' = Append(all_turns, <<thr[w].prompt, Reply>>)
          /\ UNCHANGED conversation_history
          /\ SetThr(w, [thr[w] EXCEPT !.pc = "trim", !.result = Reply,
                                      !.full_prompt = <<>>, !.handle = NoHandle])
       \/ /\ SetThr(w, [thr[w] EXCEPT !.pc = "unload", !.failed = TRUE,
                                      !.result = "Generation error",
                                      !.full_prompt = <<>>, !.handle = NoHandle])
          /\ UNCHANGED <<conversation_history, all_turns>>
    /\ UNCHANGED <<config, file_state, save_pc, pending_doc, saves, llm,
                   constructions, submits, uiQueue, output_text, status_label>>
    /\ UNCHANGED <<cap_vars, entry_vars>>
    /\ UNCHANGED shell_vars

\* Lines 817-826: create_completion returns and the turn is appended, or it
\* raises and nothing is appended.
gen_infer(w) ==
    /\ thr[w].pc = "inferring"
    /\ \/ /\ conversation_history' =
                 Append(conversation_history, <<thr[w].prompt, Reply>>)
          /\ all_turns' = Append(all_turns, <<thr[w].prompt, Reply>>)
          /\ SetThr(w, [thr[w] EXCEPT !.pc = "trim", !.result = Reply,
                                      !.full_prompt = <<>>, !.handle = NoHandle])
       \/ /\ SetThr(w, [thr[w] EXCEPT !.pc = "unload", !.failed = TRUE,
                                      !.result = "Generation error",
                                      !.full_prompt = <<>>, !.handle = NoHandle])
          /\ UNCHANGED <<conversation_history, all_turns>>
    /\ UNCHANGED <<config, file_state, save_pc, pending_doc, saves, llm,
                   constructions, submits, uiQueue, output_text, status_label>>
    /\ UNCHANGED <<cap_vars, entry_vars>>
    /\ UNCHANGED shell_vars

\* Lines 829-836, the reads: the retention count (10 when it cannot be read),
\* the length test and the slice.
gen_trim_read(w) ==
    /\ thr[w].pc = "trim"
    /\ LET r == get_config_value(K_HIST)
           max_history == IF r.ok THEN r.val ELSE DefaultHistoryLength
       IN  IF Len(conversation_history) > max_history
           THEN SetThr(w, [thr[w] EXCEPT
                             !.pc = "trim_assign",
                             !.trimmed = SliceLast(conversation_history, max_history)])
           ELSE SetThr(w, [thr[w] EXCEPT !.pc = "unload"])
    /\ UNCHANGED <<config, file_state, save_pc, pending_doc, saves, llm,
                   constructions, conversation_history, all_turns, submits,
                   uiQueue, output_text, status_label>>
    /\ UNCHANGED <<cap_vars, entry_vars>>
    /\ UNCHANGED shell_vars

\* Lines 832/836, the assignment of the slice.
gen_trim_assign(w) ==
    /\ thr[w].pc = "trim_assign"
    /\ conversation_history' = thr[w].trimmed
    /\ SetThr(w, [thr[w] EXCEPT !.pc = "unload", !.trimmed = <<>>])
    /\ UNCHANGED <<config, file_state, save_pc, pending_doc, saves, llm,
                   constructions, all_turns, submits, uiQueue, output_text,
                   status_label>>
    /\ UNCHANGED <<cap_vars, entry_vars>>
    /\ UNCHANGED shell_vars

\* Lines 842-843.
gen_unload(w) ==
    /\ thr[w].pc = "unload"
    /\ llm' = IF thr[w].keep_loaded THEN llm ELSE NoHandle
    /\ SetThr(w, [thr[w] EXCEPT !.pc = "post"])
    /\ UNCHANGED <<config, file_state, save_pc, pending_doc, saves,
                   constructions, conversation_history, all_turns, submits,
                   uiQueue, output_text, status_label>>
    /\ UNCHANGED <<cap_vars, entry_vars>>
    /\ UNCHANGED shell_vars

\* Lines 846-853: the result is posted to the main thread.
gen_post(w) ==
    /\ thr[w].pc = "post"
    /\ Len(uiQueue) < MaxQueue
    /\ uiQueue' = Post(uiQueue, UpdateTask(w, thr[w].result))
    /\ SetThr(w, [IdleThread EXCEPT !.pc = "done", !.posts = thr[w].posts + 1])
    /\ UNCHANGED <<config, file_state, save_pc, pending_doc, saves, llm,
                   constructions, conversation_history, all_turns, submits,
                   output_text, status_label>>
    /\ UNCHANGED <<cap_vars, entry_vars>>
    /\ UNCHANGED shell_vars

\* ------------------------------------------------------------ the main thread
\* One posted task runs:
\*   status         _update_status of set_status: the labels take the message;
\*   update         _update of _generate_and_update: the output view takes the
\*                  result, then clear_status() posts an empty status;
\*   show_focus     _show_and_focus: show_input_page() ends in clear_status();
\*   transcription  _update_with_transcription: a non-empty text is inserted,
\*                  and set_status_with_timeout posts a status and a timer;
\*   errorbox       the load-error box.
StatusAfter(task) ==
    CASE task.kind = "update" -> <<StatusTask("")>>
      [] task.kind = "show_focus" -> <<StatusTask("")>>
      [] task.kind = "transcription" ->
            <<StatusTask(IF task.text # "" THEN "Speech transcribed successfully"
                                           ELSE "No speech detected")>>
      [] OTHER -> <<>>

ui_run_task ==
    /\ MainThreadIdle
    /\ uiQueue # <<>>
    /\ LET task == Head(uiQueue)
       IN  /\ status_label' = IF task.kind = "status" THEN task.text ELSE status_label
           /\ output_text' = IF task.kind = "update" THEN task.text ELSE output_text
           /\ text_entry' = IF task.kind = "transcription" /\ task.text # ""
                            THEN Append(text_entry, task.text)
                            ELSE text_entry
           /\ timers' = IF task.kind = "transcription" THEN timers + 1 ELSE timers
           /\ uiQueue' = Tail(uiQueue) \o StatusAfter(task)
           /\ window' = IF task.kind = "show_focus" THEN "shown" ELSE window
    /\ widget_threads' = widget_threads \cup {"main"}
    /\ UNCHANGED <<config, file_state, save_pc, pending_doc, saves, llm,
                   constructions, conversation_history, all_turns, thr, submits>>
    /\ UNCHANGED <<cap_vars, blank_clicks>>

\* A delayed clear_status runs on the main thread: set_status("") posts the
\* empty status.
timer_fire ==
    /\ MainThreadIdle
    /\ timers > 0
    /\ Len(uiQueue) < MaxQueue
    /\ timers' = timers - 1
    /\ uiQueue' = Post(uiQueue, ExpiryTask)
    /\ UNCHANGED <<config, file_state, save_pc, pending_doc, saves, llm_vars,
                   output_text, status_label, text_entry, cap_vars>>
    /\ UNCHANGED shell_vars

\* ------------------------------------------------------------ the settings form
\* type(setting_value) at line 597, for a document whose values have the
\* types the program reads them with. A float is held as whole and tenths.
original_type(key) ==
    CASE key = K_KEEP -> "bool"
      [] key \in {K_HIST, K_RATE} -> "int"
      [] key = K_TEMP -> "float"
      [] OTHER -> "str"

DigitChar(d) ==
    CASE d = 0 -> "0" [] d = 1 -> "1" [] d = 2 -> "2" [] d = 3 -> "3" [] d = 4 -> "4"
      [] d = 5 -> "5" [] d = 6 -> "6" [] d = 7 -> "7" [] d = 8 -> "8" [] d = 9 -> "9"

CharDigit(c) == CHOOSE d \in 0..9 : DigitChar(d) = c

\* str(n) for a natural number.
RECURSIVE IntToChars(_)
IntToChars(n) ==
    IF n < 10 THEN <<DigitChar(n)>>
    ELSE Append(IntToChars(n \div 10), DigitChar(n % 10))

\* The number a sequence of digits spells.
RECURSIVE CharsToInt(_)
CharsToInt(cs) ==
    IF cs = <<>> THEN 0
    ELSE 10 * CharsToInt(SubSeq(cs, 1, Len(cs) - 1)) + CharDigit(cs[Len(cs)])

DotAt(cs) == CHOOSE i \in 1..Len(cs) : cs[i] = "."

HasDot(cs) == \E i \in 1..Len(cs) : cs[i] = "."

\* float(value) of a numeric string: whole part and tenths.
ParseFloat(cs) ==
    IF HasDot(cs)
    THEN [whole |-> CharsToInt(SubSeq(cs, 1, DotAt(cs) - 1)),
          tenths |-> IF DotAt(cs) < Len(cs) THEN CharDigit(cs[DotAt(cs) + 1]) ELSE 0]
    ELSE [whole |-> CharsToInt(cs), tenths |-> 0]

\* What the widget of a key holds for a document value, lines 510-597 and
\* 601-620: a BooleanVar for a bool, a StringVar with str(value) for a number,
\* the text itself for a string.
widget_value(key, value) ==
    CASE original_type(key) = "bool" -> value
      [] original_type(key) = "int" -> IntToChars(value)
      [] original_type(key) = "float" ->
            IntToChars(value.whole) \o <<".", DigitChar(value.tenths)>>
      [] OTHER -> value

\* Lines 694-709: the value save_settings writes for a key. The system
\* prompt is read from its Text widget and stripped; the others are
\* converted to the original type.
saved_value(key, held) ==
    CASE key = K_SYS -> get_stripped(held)
      [] original_type(key) = "bool" -> held
      [] original_type(key) = "int" ->
            IF held = <<>> THEN 0 ELSE ParseFloat(held).whole
      [] original_type(key) = "float" ->
            IF held = <<>> THEN [whole |-> 0, tenths |-> 0] ELSE ParseFloat(held)
      [] OTHER -> held

\* The form as show_settings_page refreshed it from config.json, with the
\* model path and the keep flag as the user left them.
settings_form(path, keep) ==
    [k \in DOMAIN config |->
        IF k = K_PATH THEN path
        ELSE IF k = K_KEEP THEN keep
        ELSE widget_value(k, config[k])]

\* ------------------------------------------------------------ save_settings
\* Lines 693-714: the document is built from the form, and
\* open(config_path, 'w') truncates the file.
save_open(path, keep) ==
    /\ save_pc = "idle"
    /\ saves < MaxSaves
    /\ save_pc' = "writing"
    /\ file_state' = "truncated"
    /\ pending_doc' = [k \in DOMAIN config |->
                         saved_value(k, settings_form(path, keep)[k])]
    /\ UNCHANGED <<config, saves, llm, constructions, conversation_history,
                   all_turns, thr, submits, uiQueue, output_text, status_label>>
    /\ UNCHANGED <<cap_vars, entry_vars>>
    /\ UNCHANGED shell_vars

\* Line 715: json.dump has written the document and the file is closed.
save_write ==
    /\ save_pc = "writing"
    /\ save_pc' = "reset"
    /\ config' = pending_doc
    /\ file_state' = "ok"
    /\ UNCHANGED <<pending_doc, saves, llm, constructions, conversation_history,
                   all_turns, thr, submits, uiQueue, output_text, status_label>>
    /\ UNCHANGED <<cap_vars, entry_vars>>
    /\ UNCHANGED shell_vars

\* Lines 718-721: the handles are reset.
save_reset ==
    /\ save_pc = "reset"
    /\ save_pc' = "idle"
    /\ llm' = NoHandle
    /\ whisper_model' = "None"
    /\ saves' = saves + 1
    /\ UNCHANGED <<config, file_state, pending_doc, constructions,
                   conversation_history, all_turns, thr, submits, uiQueue,
                   output_text, status_label>>
    /\ UNCHANGED <<rec_vars, trans_vars, entry_vars>>
    /\ UNCHANGED shell_vars


\* ------------------------------------------------------------ speech capture
gen_side == <<config, file_state, save_pc, pending_doc, saves, llm_vars, output_text>>

FreeTranscriberSlot == IF FreeTranscriber("t1") THEN "t1" ELSE "t2"

\* A variant without the guard of line 140.
start_speech_recording_unguarded ==
    /\ hook_pc = "idle"
    /\ presses < MaxPresses
    /\ presses' = presses + 1
    /\ key_down' = TRUE
    /\ Len(uiQueue) < MaxQueue
    /\ uiQueue' = Post(uiQueue, ShowFocusTask)
    /\ is_recording' = TRUE
    /\ recording_data' = <<>>
    /\ sessions' = sessions + 1
    /\ hook_pc' = "opening"
    /\ UNCHANGED <<releases, recording_stream, streams_opened, trans_vars,
                   whisper_model, entry_vars, status_label, gen_side>>
    /\ UNCHANGED shell_vars

\* start_speech_recording, lines 138-149, on the keyboard hook thread. The
\* hook delivers a key-down event for the first press and for every
\* auto-repeat while the key is held. When a recording is active the handler
\* returns at once. Otherwise show_window_and_focus posts its task, the flag
\* is raised and the buffer emptied.
start_speech_recording ==
    /\ hook_pc = "idle"
    /\ presses < MaxPresses
    /\ presses' = presses + 1
    /\ key_down' = TRUE
    /\ IF is_recording
       THEN UNCHANGED <<is_recording, recording_data, sessions, uiQueue, hook_pc>>
       ELSE /\ Len(uiQueue) < MaxQueue
            /\ uiQueue' = Post(uiQueue, ShowFocusTask)
            /\ is_recording' = TRUE
            /\ recording_data' = <<>>
            /\ sessions' = sessions + 1
            /\ hook_pc' = "opening"
    /\ UNCHANGED <<releases, recording_stream, streams_opened, trans_vars,
                   whisper_model, entry_vars, status_label, gen_side>>
    /\ UNCHANGED shell_vars

\* Lines 151-171, the rest of the handler: the sample rate is read, the
\* stream is constructed and started and the status is set; any of these may
\* raise into the except branch, which only prints.
\*   outcome "ok"            the stream is started;
\*   outcome "open_failed"   the read or sd.InputStream(...) raised;
\*   outcome "start_failed"  the stream was stored and start() raised.
open_recording_stream(outcome) ==
    /\ hook_pc = "opening"
    /\ hook_pc' = "idle"
    /\ LET read == get_config_value(K_RATE)
           got == IF read.ok THEN outcome ELSE "open_failed"
       IN  /\ got = "ok" => Len(uiQueue) < MaxQueue
           /\ recording_stream' =
                 CASE got = "ok" -> "started"
                   [] got = "start_failed" -> "created"
                   [] OTHER -> recording_stream
           /\ streams_opened' =
                 IF got = "open_failed" THEN streams_opened ELSE streams_opened + 1
           /\ uiQueue' =
                 IF got = "ok"
                 THEN Post(uiQueue, StatusTask("Recording... (Release F14 to stop)"))
                 ELSE uiQueue
    /\ UNCHANGED <<key_down, presses, releases, is_recording, recording_data,
                   sessions, trans_vars, whisper_model, entry_vars, status_label,
                   gen_side>>
    /\ UNCHANGED shell_vars

\* audio_callback, lines 155-157: a buffer is appended while the flag is up.
audio_callback ==
    /\ hook_pc = "idle"
    /\ is_recording
    /\ recording_stream = "started"
    /\ Len(recording_data) < MaxFrames
    /\ recording_data' = Append(recording_data, sessions)
    /\ UNCHANGED <<key_down, presses, releases, is_recording, recording_stream,
                   sessions, streams_opened, hook_pc, trans_vars, whisper_model,
                   entry_vars, status_label, uiQueue, gen_side>>
    /\ UNCHANGED shell_vars

\* A variant without the test of line 191.
stop_speech_recording_always_transcribes(stop_ok) ==
    /\ hook_pc = "idle"
    /\ key_down
    /\ key_down' = FALSE
    /\ releases' = releases + 1
    /\ IF ~is_recording
       THEN UNCHANGED <<is_recording, recording_stream, uiQueue, tr, timers>>
       ELSE /\ is_recording' = FALSE
            /\ IF recording_stream # "None" /\ ~stop_ok
               THEN UNCHANGED <<recording_stream, uiQueue, tr, timers>>
               ELSE /\ Len(uiQueue) < MaxQueue
                    /\ recording_stream' = "None"
                    /\ uiQueue' = Post(uiQueue, StatusTask("Processing speech..."))
                    /\ IF TRUE
                       THEN /\ \E t \in Transcribers : FreeTranscriber(t)
                            /\ tr' = [tr EXCEPT ![FreeTranscriberSlot] =
                                        [IdleTranscriber EXCEPT !.pc = "start",
                                            !.session_frames = recording_data]]
                            /\ UNCHANGED timers
                       ELSE /\ timers' = timers + 1
                            /\ UNCHANGED tr
    /\ UNCHANGED <<presses, recording_data, sessions, streams_opened, hook_pc,
                   whisper_loads, temp_files, temp_created, whisper_model,
                   text_entry, status_label, gen_side>>
    /\ UNCHANGED shell_vars

\* stop_speech_recording, lines 173-198, on the keyboard hook thread. Not
\* recording: return. Otherwise the flag is lowered, the stream is stopped
\* and closed (stop_ok = FALSE: one of them raised, and the except branch
\* only prints), the status is set, and either a transcription thread is
\* started or, with no frame recorded, a clear of the status is scheduled.
stop_speech_recording(stop_ok) ==
    /\ hook_pc = "idle"
    /\ key_down
    /\ key_down' = FALSE
    /\ releases' = releases + 1
    /\ IF ~is_recording
       THEN UNCHANGED <<is_recording, recording_stream, uiQueue, tr, timers>>
       ELSE /\ is_recording' = FALSE
            /\ IF recording_stream # "None" /\ ~stop_ok
               THEN UNCHANGED <<recording_stream, uiQueue, tr, timers>>
               ELSE /\ Len(uiQueue) < MaxQueue
                    /\ recording_stream' = "None"
                    /\ uiQueue' = Post(uiQueue, StatusTask("Processing speech..."))
                    /\ IF recording_data # <<>>
                       THEN /\ \E t \in Transcribers : FreeTranscriber(t)
                            /\ tr' = [tr EXCEPT ![FreeTranscriberSlot] =
                                        [IdleTranscriber EXCEPT !.pc = "start",
                                            !.session_frames = recording_data]]
                            /\ UNCHANGED timers
                       ELSE /\ timers' = timers + 1
                            /\ UNCHANGED tr
    /\ UNCHANGED <<presses, recording_data, sessions, streams_opened, hook_pc,
                   whisper_loads, temp_files, temp_created, whisper_model,
                   text_entry, status_label, gen_side>>
    /\ UNCHANGED shell_vars

\* ------------------------------------------------------------ process_speech_recording
\* Lines 204-205: nothing recorded, the thread returns.
tr_check(t) ==
    /\ tr[t].pc = "start"
    /\ tr' = [tr EXCEPT ![t] = IF recording_data = <<>>
                               THEN [IdleTranscriber EXCEPT !.pc = "done"]
                               ELSE [tr[t] EXCEPT !.pc = "concat"]]
    /\ UNCHANGED <<rec_vars, whisper_model, whisper_loads, temp_files,
                   temp_created, entry_vars, status_label, uiQueue, gen_side>>
    /\ UNCHANGED shell_vars

\* Lines 207-222: the buffers are concatenated (np.concatenate raises on an
\* empty list), the sample rate is read and the temporary file is written.
tr_write(t) ==
    /\ tr[t].pc = "concat"
    /\ IF recording_data # <<>> /\ get_config_value(K_RATE).ok
       THEN /\ temp_created' = temp_created + 1
            /\ temp_files' = temp_files \cup {temp_created + 1}
            /\ tr' = [tr EXCEPT ![t] = [tr[t] EXCEPT !.pc = "load",
                                                     !.audio = recording_data,
                                                     !.file = temp_created + 1]]
       ELSE /\ tr' = [tr EXCEPT ![t] = [tr[t] EXCEPT !.pc = "failed"]]
            /\ UNCHANGED <<temp_created, temp_files>>
    /\ UNCHANGED <<rec_vars, whisper_model, whisper_loads, entry_vars, status_label,
                   uiQueue, gen_side>>
    /\ UNCHANGED shell_vars

\* Lines 225-227: the model is constructed when the handle is None; the read
\* of the size or the construction may raise.
tr_load(t, load_ok) ==
    /\ tr[t].pc = "load"
    /\ IF whisper_model # "None"
       THEN /\ tr' = [tr EXCEPT ![t] = [tr[t] EXCEPT !.pc = "transcribe"]]
            /\ UNCHANGED <<whisper_model, whisper_loads>>
       ELSE LET read == get_config_value(K_SIZE)
            IN  IF read.ok /\ load_ok
                THEN /\ whisper_model' = read.val
                     /\ whisper_loads' = whisper_loads + 1
                     /\ tr' = [tr EXCEPT ![t] = [tr[t] EXCEPT !.pc = "transcribe"]]
                ELSE /\ whisper_loads' = IF read.ok THEN whisper_loads + 1
                                                    ELSE whisper_loads
                     /\ tr' = [tr EXCEPT ![t] = [tr[t] EXCEPT !.pc = "failed"]]
                     /\ UNCHANGED whisper_model
    /\ UNCHANGED <<rec_vars, temp_files, temp_created, entry_vars, status_label,
                   uiQueue, gen_side>>
    /\ UNCHANGED shell_vars

\* Lines 230-254: transcribe, delete the file, post the update; transcribe
\* raises when it fails or when the handle has been reset meanwhile.
tr_transcribe(t, text, ok) ==
    /\ tr[t].pc = "transcribe"
    /\ IF whisper_model # "None" /\ ok
       THEN /\ Len(uiQueue) < MaxQueue
            /\ temp_files' = temp_files \ {tr[t].file}
            /\ uiQueue' = Post(uiQueue, TranscriptionTask(text))
            /\ tr' = [tr EXCEPT ![t] = [IdleTranscriber EXCEPT !.pc = "done"]]
       ELSE /\ tr' = [tr EXCEPT ![t] = [tr[t] EXCEPT !.pc = "failed"]]
            /\ UNCHANGED <<temp_files, uiQueue>>
    /\ UNCHANGED <<rec_vars, whisper_model, whisper_loads, temp_created, entry_vars,
                   status_label, gen_side>>
    /\ UNCHANGED shell_vars

\* Lines 256-259: the except branch posts the failure status and its timer.
tr_except(t) ==
    /\ tr[t].pc = "failed"
    /\ Len(uiQueue) < MaxQueue
    /\ uiQueue' = Post(uiQueue, StatusTask("Speech processing failed"))
    /\ timers' = timers + 1
    /\ tr' = [tr EXCEPT ![t] = [IdleTranscriber EXCEPT !.pc = "done"]]
    /\ UNCHANGED <<rec_vars, whisper_model, whisper_loads, temp_files,
                   temp_created, text_entry, status_label, gen_side>>
    /\ UNCHANGED shell_vars

\* ------------------------------------------------------------ the window
\* A variant that posts the status and leaves the history.
clear_conversation_history_keeps ==
    /\ MainThreadIdle
    /\ timers < MaxTimers
    /\ Len(uiQueue) < MaxQueue
    /\ uiQueue' = Post(uiQueue, StatusTask("Conversation history cleared"))
    /\ timers' = timers + 1
    /\ UNCHANGED <<config, file_state, save_pc, pending_doc, saves, llm,
                   constructions, conversation_history, all_turns, thr, submits,
                   output_text, status_label, text_entry, cap_vars, shell_vars>>

\* clear_conversation_history, lines 726-729, the "new chat" button on the
\* main thread: the history is emptied, a status and the timer that clears it
\* are posted.
clear_conversation_history ==
    /\ MainThreadIdle
    /\ timers < MaxTimers
    /\ Len(uiQueue) < MaxQueue
    /\ conversation_history' = <<>>
    /\ uiQueue' = Post(uiQueue, StatusTask("Conversation history cleared"))
    /\ timers' = timers + 1
    /\ UNCHANGED <<config, file_state, save_pc, pending_doc, saves, llm,
                   constructions, all_turns, thr, submits, output_text,
                   status_label, text_entry, cap_vars, shell_vars>>

\* minimize_to_tray, lines 743-746: the handler of the window's close button,
\* on the main thread, and of the tray menu's "Hide", on the tray thread. The
\* history is emptied and root.withdraw() is called on the calling thread.
minimize_to_tray(thread) ==
    /\ thread = "main" => MainThreadIdle
    /\ conversation_history' = <<>>
    /\ window' = "hidden"
    /\ widget_threads' = widget_threads \cup {thread}
    /\ UNCHANGED <<config, file_state, save_pc, pending_doc, saves, llm,
                   constructions, all_turns, thr, submits, uiQueue, output_text,
                   status_label, entry_vars, cap_vars, blank_clicks>>

\* show_window, lines 748-752, the tray menu's "Show" on the tray thread:
\* root.deiconify(), lift() and attributes() are called on that thread.
show_window ==
    /\ window' = "shown"
    /\ widget_threads' = widget_threads \cup {"tray"}
    /\ UNCHANGED <<gen_vars, cap_vars, entry_vars, blank_clicks>>

\* quit_app, lines 855-877: the tray menu's "Quit" on the tray thread, or the
\* KeyboardInterrupt handler of run on the main thread. A recording is
\* stopped, the hooks and the tray icon are removed and root.quit() and
\* root.destroy() are called on the calling thread.
quit_app(thread) ==
    /\ thread = "main" => MainThreadIdle
    /\ is_recording' = FALSE
    /\ window' = "destroyed"
    /\ widget_threads' = widget_threads \cup {thread}
    /\ UNCHANGED <<gen_vars, entry_vars, blank_clicks, key_down, presses, releases,
                   recording_data, recording_stream, sessions, streams_opened,
                   hook_pc, trans_vars, whisper_model>>

\* ------------------------------------------------------------ specifications
LoaderStep(t) ==
    \/ init_llm_read(t)
    \/ init_llm_construct(t)

WorkerStep(w) ==
    \/ gen_read_keep(w)
    \/ gen_check_llm(w)
    \/ gen_check_loaded(w)
    \/ gen_build(w)
    \/ gen_infer(w)
    \/ gen_trim_read(w)
    \/ gen_trim_assign(w)
    \/ gen_unload(w)
    \/ gen_post(w)

\* The documents the concurrent runs start from.
ConcDocs == {FullDoc(keep, "old.gguf", MaxHistoryLength) : keep \in BOOLEAN}

\* The text of the next submit of a concurrent run: the submits alternate.
NextText == IF submits % 2 = 0 THEN "hi" ELSE "bye"

\* The main loop is idle between the user's actions: a task posted with
\* root.after(0, ...) runs before another thread's next access to shared
\* state, unless the main thread is inside save_settings. The tasks read and
\* write only the widgets, which no other thread reads.
MainLoopCaughtUp == uiQueue = <<>> \/ ~MainThreadIdle

\* The program with generations, the preload and a settings save in flight
\* together.
Next ==
    \/ MainLoopCaughtUp /\ submits < MaxConcSubmits /\ send_text(NextText)
    \/ \E t \in Loaders : MainLoopCaughtUp /\ LoaderStep(t)
    \/ \E w \in Workers : MainLoopCaughtUp /\ WorkerStep(w)
    \/ ui_run_task
    \/ \E keep \in BOOLEAN : MainLoopCaughtUp /\ save_open("new.gguf", keep)
    \/ save_write
    \/ save_reset

Spec == InitWith(ConcDocs) /\ [][Next]_vars

\* One generation at a time: a submit only after the previous request's
\* result has been shown; no settings save.
Sequential == (\A w \in Workers : Free(w)) /\ uiQueue = <<>>

NextSeq ==
    \/ \E text \in Texts : Sequential /\ send_text(text)
    \/ \E t \in Loaders : LoaderStep(t)
    \/ \E w \in Workers : WorkerStep(w)
    \/ ui_run_task

SpecSeq == Init /\ [][NextSeq]_vars

\* Two generations in flight at once on a history that is already full: the
\* first submits are made one at a time, the last two may overlap. The model
\* stays loaded and the preload has finished before the first submit.
OverlapDocs == {FullDoc(TRUE, "old.gguf", MaxHistoryLength)}

NextOverlap ==
    \/ /\ submits < MaxHistoryLength + Cardinality(Workers)
       /\ thr[Preload].pc = "done"
       /\ MainLoopCaughtUp
       /\ submits < MaxHistoryLength => Sequential
       /\ send_text(NextText)
    \/ LoaderStep(Preload)
    \/ \E w \in Workers : MainLoopCaughtUp /\ (WorkerStep(w) \/ LoaderStep(w))
    \/ ui_run_task

SpecOverlap == InitWith(OverlapDocs) /\ [][NextOverlap]_vars

\* The speech hotkey, the audio callback, the transcription threads and the
\* main thread; the documents a capture run starts from.
CaptureDocs ==
    {FullDoc(FALSE, "old.gguf", MaxHistoryLength),
     Without(FullDoc(FALSE, "old.gguf", MaxHistoryLength), K_RATE)}

TranscriberStep(t) ==
    \/ tr_check(t)
    \/ tr_write(t)
    \/ \E load_ok \in BOOLEAN : tr_load(t, load_ok)
    \/ \E text \in {"", "speech"}, ok \in BOOLEAN : tr_transcribe(t, text, ok)
    \/ tr_except(t)

NextCapture ==
    \/ start_speech_recording
    \/ \E outcome \in {"ok", "open_failed", "start_failed"} :
          open_recording_stream(outcome)
    \/ audio_callback
    \/ \E stop_ok \in BOOLEAN : stop_speech_recording(stop_ok)
    \/ \E t \in Transcribers : TranscriberStep(t)
    \/ ui_run_task
    \/ timer_fire

SpecCapture == InitWith(CaptureDocs) /\ [][NextCapture]_vars

\* The settings page: documents whose system prompt has leading or trailing
\* white space or none, saved with the path and the keep flag edited or not.
SettingsDocs ==
    {[FullDoc(keep, "old.gguf", hist) EXCEPT ![K_SYS] = sys, ![K_TEMP] = temp] :
        keep \in BOOLEAN, hist \in 0..MaxHistoryLength,
        sys \in {"sys", " sys", "sys\n"},
        temp \in {[whole |-> 0, tenths |-> 7], [whole |-> 1, tenths |-> 0]}}

NextSettings ==
    \/ \E path \in {"old.gguf", "new.gguf"}, keep \in BOOLEAN : save_open(path, keep)
    \/ save_write
    \/ save_reset
    \/ LoaderStep(Preload)

SpecSettings == InitWith(SettingsDocs) /\ [][NextSettings]_vars

\* The window with its buttons and the tray menu: submits, blank ones
\* included, one generation at a time, "new chat", hide, show and quit, from
\* a document that does not keep the model loaded. The
\* send button is reachable while the window is shown; nothing runs after
\* quit_app.
ChatDocs == {FullDoc(FALSE, "old.gguf", MaxHistoryLength)}

ChatTexts == {"hi", " "}

Running == window # "destroyed"

NextChat ==
    \/ \E entry \in ChatTexts :
          /\ Running /\ window = "shown" /\ Sequential
          /\ submits < MaxChatSubmits
          /\ send_text(entry)
    \/ \E t \in Loaders : Running /\ LoaderStep(t)
    \/ \E w \in Workers : Running /\ WorkerStep(w)
    \/ Running /\ ui_run_task
    \/ Running /\ timer_fire
    \/ Running /\ window = "shown" /\ clear_conversation_history
    \/ \E thread \in {"main", "tray"} : Running /\ minimize_to_tray(thread)
    \/ Running /\ show_window
    \/ \E thread \in {"main", "tray"} : Running /\ quit_app(thread)

SpecChat == InitWith(ChatDocs) /\ [][NextChat]_vars

\* ------------------------------------------------------------ the claims
LastN(seq, n) == SubSeq(seq, Len(seq) - n + 1, Len(seq))

Min(a, b) == IF a < b THEN a ELSE b

\* A worker whose append and trim are both done.
Trimmed(w) == thr[w].pc = "unload" /\ ~thr[w].failed

\* C1: after the append and trim of a successful generation the history holds
\* at most conversation_history_length turns, for every value of it from 0.
C1_HistoryWithinBound ==
    \A w \in Workers :
        (Trimmed(w) /\ K_HIST \in DOMAIN config)
            => Len(conversation_history) <= config[K_HIST]

\* C2: after the N-th successful sequential generation with bound B the
\* history is the min(N, B) most recent turns, oldest first.
C2_HistoryIsMostRecent ==
    \A w \in Workers :
        (Trimmed(w) /\ K_HIST \in DOMAIN config)
            => conversation_history =
                   LastN(all_turns, Min(Len(all_turns), config[K_HIST]))

\* C3: loads coalesce: at no time are two threads inside Llama(...).
C3_OneConstructionInFlight ==
    Cardinality({t \in Loaders : thr[t].pc = "constructing"}) <= 1

\* C4: a generation submitted after the latest save completed never runs
\* inference on a handle built from another model path than the saved one.
C4_NoStaleHandleAfterSave ==
    \A w \in Workers :
        (thr[w].pc = "inferring" /\ saves > 0 /\ thr[w].start_epoch = saves
            /\ save_pc = "idle")
            => thr[w].handle.path = config[K_PATH]

\* C5: a request that failed in the load or in the inference has left the
\* history as it was at the submit, and the text it delivers is a non-empty
\* error message, not model output.
ErrorTexts == {"Model failed to load.", "Generation error"}

C5_FailureLeavesHistory ==
    \A w \in Workers :
        thr[w].failed =>
            /\ thr[w].pc \in {"unload", "post"}
            /\ conversation_history = thr[w].history_at_start
            /\ thr[w].result \in ErrorTexts
            /\ thr[w].result # ""
            /\ thr[w].result # Reply

C5_Witness ==
    \E w \in Workers :
        thr[w].failed /\ thr[w].pc = "post" /\ conversation_history # <<>>

\* C6: a worker thread that has ended has posted exactly one result update.
C6_ExactlyOneUpdate ==
    \A w \in Workers : thr[w].pc \in {"done", "crashed"} => thr[w].posts = 1

\* C7: the prompt handed to the model is the system segment, one user and one
\* assistant segment per history turn, oldest first, the new user segment, and
\* an assistant start marker that is left open.
RoleAt(p, i) == p[6 * (i - 1) + 2]
TextAt(p, i) == p[6 * (i - 1) + 4]
Count(p, token) == Cardinality({i \in 1..Len(p) : p[i] = token})

PromptShape(p, system_prompt, history, prompt) ==
    LET k == Len(history)
        n == 2 * k + 2
    IN  /\ Len(p) = 6 * n + 3
        /\ \A i \in 1..n :
              /\ p[6 * (i - 1) + 1] = IM_START
              /\ p[6 * (i - 1) + 3] = NL
              /\ p[6 * (i - 1) + 5] = IM_END
              /\ p[6 * (i - 1) + 6] = NL
        /\ RoleAt(p, 1) = "system" /\ TextAt(p, 1) = system_prompt
        /\ \A j \in 1..k :
              /\ RoleAt(p, 2 * j) = "user"
              /\ TextAt(p, 2 * j) = history[j][1]
              /\ RoleAt(p, 2 * j + 1) = "assistant"
              /\ TextAt(p, 2 * j + 1) = history[j][2]
        /\ RoleAt(p, n) = "user" /\ TextAt(p, n) = prompt
        /\ SubSeq(p, 6 * n + 1, 6 * n + 3) = <<IM_START, "assistant", NL>>
        /\ Count(p, IM_START) = n + 1
        /\ Count(p, IM_END) = n

C7_PromptShape ==
    \A w \in Workers :
        thr[w].pc = "inferring" =>
            PromptShape(thr[w].full_prompt, config[K_SYS], conversation_history,
                        thr[w].prompt)

C7_Witness ==
    \E w \in Workers : thr[w].pc = "inferring" /\ Len(conversation_history) = 2

\* C8: a key-down event that arrives while a recording is active changes
\* neither the flag, the frames nor the stream, and starts neither a session
\* nor a stream: every hold of the key is one session with at most one stream.
C8_PressWhileRecordingIsNoOp ==
    /\ [][(presses' # presses /\ is_recording) =>
             UNCHANGED <<is_recording, recording_data, recording_stream, sessions,
                         streams_opened>>]_vars
    /\ [](sessions = releases + (IF is_recording THEN 1 ELSE 0))
    /\ [](streams_opened <= sessions)

C8_Witness ==
    /\ presses = 2 /\ sessions = 1 /\ streams_opened = 1
    /\ is_recording /\ recording_stream = "started" /\ recording_data # <<>>

\* C9: a key-down event that arrives while a transcription thread is running
\* starts no recording and leaves the frame buffer alone.
Transcribing == \E t \in Transcribers : ~FreeTranscriber(t)

C9_PressWhileTranscribingIgnored ==
    [][(presses' # presses /\ Transcribing) =>
          UNCHANGED <<is_recording, recording_data>>]_vars

\* C10: a release that ends a recording with no frame lowers the flag, starts
\* no transcription thread, loads no model and creates no temporary file; it
\* posts at most the processing status, together with the timer that clears it.
C10_EmptyReleaseSkipsTranscription ==
    [][(releases' # releases /\ is_recording /\ recording_data = <<>>) =>
          /\ ~is_recording'
          /\ UNCHANGED <<tr, whisper_model, whisper_loads, temp_files, temp_created>>
          /\ \/ UNCHANGED <<uiQueue, timers>>
             \/ /\ uiQueue' = Append(uiQueue, StatusTask("Processing speech..."))
                /\ timers' = timers + 1]_vars

C10_Witness ==
    /\ releases = 1 /\ sessions = 1 /\ ~is_recording /\ recording_data = <<>>
    /\ recording_stream = "None" /\ streams_opened = 1
    /\ \A t \in Transcribers : tr[t].pc = "idle"
    /\ temp_created = 0 /\ whisper_loads = 0 /\ timers = 1

\* C11: once no transcription thread is running, every temporary audio file
\* that was created has been deleted, whatever the outcome of the thread.
C11_TempFileDeleted ==
    (\A t \in Transcribers : FreeTranscriber(t)) => temp_files = {}

\* C12: when the press handler has returned with the flag raised, the stream
\* is open and started: a failed open or start leaves the flag lowered and no
\* stream held.
C12_FailedOpenReturnsToIdle ==
    (hook_pc = "idle" /\ is_recording) => recording_stream = "started"

\* C14: with keep_model_loaded false, the transcription-model handle is None
\* whenever no transcription thread is running.
C14_WhisperReleasedWhenNotSticky ==
    ((\A t \in Transcribers : FreeTranscriber(t))
        /\ get_config_value(K_KEEP).ok /\ ~get_config_value(K_KEEP).val)
        => whisper_model = "None"

\* C13: a generation that read keep_model_loaded false leaves the handle None
\* when it completes; and a model construction completes only while no handle
\* exists, so that sequential generations that keep the model construct it once.
C13_ReleasePolicy ==
    /\ [](\A w \in Workers :
            (thr[w].pc = "post" /\ ~thr[w].keep_loaded) => llm = NoHandle)
    /\ [][constructions' # constructions => llm = NoHandle]_vars

\* C15: the document save_settings builds from the form has, for every key
\* the user did not edit, the value config.json held, type included; the file
\* then holds that document.
C15_SettingsRoundTrip ==
    [][(save_pc = "idle" /\ save_pc' = "writing") =>
          \A k \in DOMAIN config :
              (k \notin {K_PATH, K_KEEP}
                 \/ (k = K_PATH /\ pending_doc'[K_PATH] = config[K_PATH])
                 \/ (k = K_KEEP /\ pending_doc'[K_KEEP] = config[K_KEEP]))
                  => pending_doc'[k] = config[k]]_vars

\* C16: only the main thread ever calls into the window or a widget; the
\* hotkey thread, the tray thread and the worker threads only post tasks.
C16_OnlyMainThreadTouchesWidgets == widget_threads \subseteq {"main"}

\* C17: no background thread (preload, generation worker) ends with an
\* exception it did not catch.
C17_NoWorkerDiesUnhandled == \A t \in Loaders : thr[t].pc # "crashed"

\* C18: the step of "new chat" and the step that hides the window leave the
\* history empty, and a prompt built from it then has the system segment, the
\* new user segment and the open assistant marker, with no history pair.
C18_HistoryClearedOnNewChatAndHide ==
    [][(uiQueue' = Append(uiQueue, StatusTask("Conversation history cleared"))
          \/ (window # "hidden" /\ window' = "hidden")) =>
          /\ conversation_history' = <<>>
          /\ \A text \in Texts :
                PromptShape(full_prompt_of(config[K_SYS], conversation_history', text),
                            config[K_SYS], <<>>, text)]_vars

C18_Witness ==
    /\ all_turns # <<>>
    /\ conversation_history = <<>>
    /\ \E w \in Workers : thr[w].pc = "inferring" /\ Len(thr[w].full_prompt) = 15

\* C19: a run of the send handler on an empty or blank input changes
\* nothing: no worker, no model, and history, output view, input view,
\* status, queue and timers as they were.
C19_BlankSubmitHasNoEffect ==
    [][blank_clicks' # blank_clicks =>
          UNCHANGED <<gen_vars, cap_vars, entry_vars, window>>]_vars

C19_Witness ==
    /\ blank_clicks = 1 /\ submits = 1
    /\ output_text = Reply /\ conversation_history # <<>>

\* C20: the audio a transcription thread encodes is the sequence of frames
\* its session held at the release, whatever the hotkey and the audio
\* callback do while the thread runs.
C20_FramesFrozenAtRelease ==
    \A t \in Transcribers :
        tr[t].pc \in {"load", "transcribe"} => tr[t].audio = tr[t].session_frames

\* C21: a worker that passed the test of line 803 with a handle, and has read
\* its generation parameters, still finds a handle when it calls
\* self.llm.create_completion at line 817.
C21_NoUseAfterUnload ==
    [][\A w \in Workers :
          (thr[w].pc = "build" /\ thr'[w].pc # "build" /\ get_config_value(K_SYS).ok)
              => llm # NoHandle]_vars

\* C28: config.json holds a complete document at every moment, so that a read
\* of a key of the document never fails.
C28_ReadersSeeCompleteDocument ==
    \A k \in DOMAIN config : get_config_value(k).ok

\* C22: with two generations in flight at once and a retention bound of at
\* least 2, once both workers have finished the history is the last turns
\* that were appended, in append order and within the bound: no appended turn
\* is lost.
C22_OverlappingGenerationsKeepTurns ==
    ((\A w \in Workers : Free(w)) /\ config[K_HIST] >= 2)
        => conversation_history =
               LastN(all_turns, Min(Len(all_turns), config[K_HIST]))

\* C23: a transcription thread ends by posting one outcome to the main
\* thread: the transcription task, or the failure status.
C23_TranscriptionPostsOneOutcome ==
    [][\A t \in Transcribers :
          (tr[t].pc # "done" /\ tr'[t].pc = "done")
              => \E task \in {TranscriptionTask(""), TranscriptionTask("speech"),
                              StatusTask("Speech processing failed")} :
                     uiQueue' = Append(uiQueue, task)]_vars

\* C24: before the first submit the model is constructed only by the preload
\* thread, which runs only when keep_model_loaded read true; and no worker is
\* loading the model while the preload thread is.
LoadingModel(t) == thr[t].pc \in {"init_llm", "constructing"}

C24_LazyUnlessKeepLoaded ==
    /\ (submits = 0 /\ ~(get_config_value(K_KEEP).ok /\ get_config_value(K_KEEP).val))
          => (constructions = 0 /\ \A t \in Loaders : ~LoadingModel(t))
    /\ submits = 0 => constructions <= 1
    /\ LoadingModel(Preload) => \A w \in Workers : ~LoadingModel(w)

\* C26: a generation gets past the trim of its history only when
\* conversation_history_length could be read; with the key missing the
\* request fails.
C26_MissingKeyFailsTheOperation ==
    \A w \in Workers :
        (thr[w].pc \in {"trim_assign", "unload"} /\ ~thr[w].failed)
            => get_config_value(K_HIST).ok

\* C25: during the first recording, once the stream is started and every
\* task posted to the main thread has run, the status shown is the Recording
\* message.
C25_RecordingStatusShown ==
    (presses = 1 /\ releases = 0 /\ is_recording /\ hook_pc = "idle"
        /\ recording_stream = "started" /\ uiQueue = <<>>)
        => status_label = "Recording... (Release F14 to stop)"

\* C27: a load that fails leaves the handle None; the worker whose load left
\* no handle reports the failure and does not load again; and the worker of
\* a later submit that finds no handle calls init_llm afresh.
C27_NoAutomaticRetry ==
    /\ [][uiQueue' = Append(uiQueue, ErrorBoxTask) => llm' = NoHandle]_vars
    /\ [][\A w \in Workers :
            (thr[w].pc = "check_loaded" /\ thr'[w].pc # "check_loaded"
                /\ llm = NoHandle)
                => /\ thr'[w].pc = "post"
                   /\ thr'[w].result = "Model failed to load."
                   /\ constructions' = constructions]_vars
    /\ [][\A w \in Workers :
            (thr[w].pc = "check_llm" /\ thr'[w].pc # "check_llm" /\ llm = NoHandle)
                => thr'[w].pc = "init_llm"]_vars

C27_Witness ==
    /\ submits = 2 /\ constructions = 2 /\ llm = NoHandle
    /\ \E w \in Workers :
          thr[w].pc = "post" /\ thr[w].result = "Model failed to load."

\* C29: when requests are made one after the other, each after the result of
\* the one before was delivered, and the retention bound is at least 1, the
\* prompt being completed carries the turn of the latest successful request
\* as its last history pair.
RetentionBound ==
    IF get_config_value(K_HIST).ok THEN config[K_HIST] ELSE DefaultHistoryLength

HistoryPairs(p) == ((Len(p) - 3) \div 6 - 2) \div 2

C29_PromptCarriesPreviousTurn ==
    \A w \in Workers :
        (thr[w].pc = "inferring" /\ all_turns # <<>> /\ RetentionBound >= 1)
            => LET p == thr[w].full_prompt
                   k == HistoryPairs(p)
               IN  /\ k >= 1
                   /\ RoleAt(p, 2 * k) = "user"
                   /\ RoleAt(p, 2 * k + 1) = "assistant"
                   /\ <<TextAt(p, 2 * k), TextAt(p, 2 * k + 1)>>
                          = all_turns[Len(all_turns)]

C29_Witness ==
    \E w \in Workers :
        /\ thr[w].pc = "inferring"
        /\ Len(all_turns) = MaxHistoryLength + 1
        /\ HistoryPairs(thr[w].full_prompt) = MaxHistoryLength

\* C30: the status of a recording in progress, which is set without a timer,
\* is not cleared by the expiry timer of an earlier status.
RecordingStatus == "Recording... (Release F14 to stop)"

C30_TimerClearsOnlyItsOwnStatus ==
    [][(status_label = RecordingStatus /\ status_label' # status_label)
          => Head(uiQueue) # ExpiryTask]_vars

\* C31: a worker whose request was submitted on a history that held turns,
\* and that finds the history emptied by "new chat" or by hiding the window
\* while its completion was running, does not put its turn into the history.
C31_ClearNotUndoneByInFlightGeneration ==
    [][\A w \in Workers :
          (thr[w].pc = "inferring" /\ thr[w].history_at_start # <<>>
              /\ conversation_history = <<>>)
              => conversation_history' = <<>>]_vars

====
